---- MODULE Spec2Model ----
(***************************************************************************)
(* Model of bin/workspace-cursorrules-symlink.js: one synchronous script   *)
(* that mirrors every <project>/.cursor/rules/** file of a workspace as a  *)
(* symbolic link under <root>/.cursor/rules/<project>/ and then merges one *)
(* key into <root>/.vscode/settings.json.                                  *)
(*                                                                         *)
(* The file system is a finite map from real paths (sequences of names,    *)
(* <<>> is the workspace root) to nodes.  Path resolution, existsSync,     *)
(* mkdirSync, unlinkSync, symlinkSync and readdirSync follow the POSIX     *)
(* behaviour the Node.js calls have on the host.                           *)
(***************************************************************************)
EXTENDS Integers, Sequences, FiniteSets, TLC

\* ------------------------------------------------------------------ bounds
\* Number of successive invocations of the tool that are explored.
MaxRuns == 2
\* Symbolic links followed in one path resolution before ELOOP.
MaxHops == 2

\* ------------------------------------------------------------ file system
Err == <<"!">>

Parent(p) == SubSeq(p, 1, Len(p) - 1)
Base(p) == p[Len(p)]

\* path.join(a, b) / path.relative(a, b) on name sequences
Join(a, b) == a \o b
Relative(from, to) == SubSeq(to, Len(from) + 1, Len(to))

NoText == [shape |-> "raw", pretty |-> FALSE, top |-> "-", m |-> <<>>]
DirNode == [k |-> "dir", t |-> <<>>, c |-> NoText]
FileNode == [k |-> "file", t |-> <<>>, c |-> NoText]
LinkNode(target) == [k |-> "link", t |-> target, c |-> NoText]
TextNode(text) == [k |-> "file", t |-> <<>>, c |-> text]

\* The real path p resolves to, every symbolic link followed (stat); Err when
\* a component is missing, is not a directory, or the links loop.
RECURSIVE Real(_, _, _)
Real(f, p, n) ==
  IF p = <<>> THEN <<>>
  ELSE LET par == Real(f, Parent(p), n) IN
       IF par = Err THEN Err
       ELSE IF f[par].k # "dir" THEN Err
       ELSE LET q == Append(par, Base(p)) IN
            IF q \notin DOMAIN f THEN Err
            ELSE IF f[q].k = "link"
                 THEN (IF n = 0 THEN Err ELSE Real(f, f[q].t, n - 1))
                 ELSE q

\* The location the last component of p names, its parent resolved but the
\* entry itself not followed (lstat, unlink, symlink, mkdir).
Loc(f, p) ==
  LET par == Real(f, Parent(p), MaxHops) IN
  IF par = Err THEN Err
  ELSE IF f[par].k # "dir" THEN Err
  ELSE Append(par, Base(p))

\* An entry of any kind is reachable at p (lstat succeeds).
LExists(f, p) == p = <<>> \/ (Loc(f, p) # Err /\ Loc(f, p) \in DOMAIN f)

\* fs.existsSync: stat-based, follows symbolic links.
existsSync(f, p) == Real(f, p, MaxHops) # Err

\* fs.statSync(p).isDirectory()
isDirectory(f, p) == existsSync(f, p) /\ f[Real(f, p, MaxHops)].k = "dir"

Put(f, q, node) == [x \in DOMAIN f \cup {q} |-> IF x = q THEN node ELSE f[x]]
Remove(f, q) == [x \in DOMAIN f \ {q} |-> f[x]]

Ok(f) == [ok |-> TRUE, fs |-> f]
Fail(f) == [ok |-> FALSE, fs |-> f]

\* fs.mkdirSync(p, {recursive: true})
RECURSIVE mkdirSync(_, _)
mkdirSync(f, p) ==
  IF p = <<>> THEN Ok(f)
  ELSE LET up == mkdirSync(f, Parent(p)) IN
       IF ~up.ok THEN Fail(f)
       ELSE LET q == Loc(up.fs, p) IN
            IF q = Err THEN Fail(f)
            ELSE IF q \in DOMAIN up.fs
                 THEN (IF isDirectory(up.fs, p) THEN up ELSE Fail(f))
                 ELSE Ok(Put(up.fs, q, DirNode))

\* fs.unlinkSync(p): removes the entry itself, never a directory.
unlinkSync(f, p) ==
  LET q == Loc(f, p) IN
  IF q = Err \/ q \notin DOMAIN f THEN Fail(f)
  ELSE IF f[q].k = "dir" THEN Fail(f)
  ELSE Ok(Remove(f, q))

\* fs.symlinkSync(target, p)
symlinkSync(f, target, p) ==
  LET q == Loc(f, p) IN
  IF q = Err \/ q \in DOMAIN f THEN Fail(f)
  ELSE Ok(Put(f, q, LinkNode(target)))

\* Names listed by fs.readdirSync(dir): the children of the directory dir
\* resolves to.
Children(f, dir) ==
  LET d == Real(f, dir, MaxHops) IN
  {Base(q) : q \in {x \in DOMAIN f : x # <<>> /\ Parent(x) = d}}

\* dirent.isDirectory(): the type of the entry itself, links not followed.
DirentIsDirectory(f, dir, name) ==
  f[Append(Real(f, dir, MaxHops), name)].k = "dir"

\* A name the script filters out with dir.startsWith(".").
HiddenNames == {".cursor", ".vscode", ".git"}
startsWithDot(name) == name \in HiddenNames

\* getAllFiles(dir): every entry below dir that is not a directory, as
\* path.join(currentDir, entry.name); ok is FALSE when a readdirSync throws.
RECURSIVE traverse(_, _, _)
traverse(f, noread, currentDir) ==
  IF Real(f, currentDir, MaxHops) \in noread
  THEN [ok |-> FALSE, files |-> {}]
  ELSE LET entries == Children(f, currentDir)
           dirs == {e \in entries : DirentIsDirectory(f, currentDir, e)}
           subs == {traverse(f, noread, Append(currentDir, e)) : e \in dirs}
       IN [ok |-> \A s \in subs : s.ok,
           files |-> {Append(currentDir, e) : e \in entries \ dirs}
                       \cup UNION {s.files : s \in subs}]

getAllFiles(f, noread, dir) == traverse(f, noread, dir)

\* ------------------------------------------------------- settings content
ESLintKey == "eslint.workingDirectories"
\* JSON.stringify of [{ mode: "auto" }]
AutoValue == "[{mode:auto}]"
eslintConfig == <<[k |-> ESLintKey, v |-> AutoValue]>>

\* Member values that JavaScript treats as false in a condition.
FalsyValues == {"null", "false", "0", "\"\""}

JsonText(top, m, pretty) ==
  [shape |-> "json", pretty |-> pretty, top |-> top, m |-> m]
BlankText == [shape |-> "blank", pretty |-> FALSE, top |-> "-", m |-> <<>>]
MalformedText == [shape |-> "malformed", pretty |-> FALSE, top |-> "-", m |-> <<>>]

HasKey(m, key) == \E i \in 1..Len(m) : m[i].k = key
Lookup(m, key) == m[CHOOSE i \in 1..Len(m) : m[i].k = key].v

\* existingContent.trim() is non-empty
trimNonEmpty(text) == text.shape # "blank"

\* JSON.parse(existingContent): the parsed value, or a SyntaxError.
JSONparse(text) ==
  IF text.shape = "json"
  THEN [ok |-> TRUE, top |-> text.top, m |-> text.m]
  ELSE [ok |-> FALSE, top |-> "-", m |-> <<>>]

\* JSON.stringify(obj, null, 2)
JSONstringify(m) == JsonText("object", m, TRUE)

\* existingSettings["eslint.workingDirectories"] used as a condition:
\* "throw" on null, otherwise whether the member is present and truthy.
KeyCondition(val) ==
  IF val.top = "null" THEN "throw"
  ELSE IF val.top = "object" /\ HasKey(val.m, ESLintKey)
          /\ Lookup(val.m, ESLintKey) \notin FalsyValues
       THEN "truthy"
       ELSE "falsy"

\* { ...existingSettings, ...eslintConfig }: own members of the value in
\* their order, the configured key overwritten in place or appended.
Spread(val) ==
  LET own == IF val.top = "object" THEN val.m ELSE <<>> IN
  IF HasKey(own, ESLintKey)
  THEN [i \in 1..Len(own) |->
          IF own[i].k = ESLintKey THEN eslintConfig[1] ELSE own[i]]
  ELSE own \o eslintConfig

\* fs.readFileSync(p, "utf8")
readFileSync(f, p) ==
  LET q == Real(f, p, MaxHops) IN
  IF q = Err \/ f[q].k # "file"
  THEN [ok |-> FALSE, text |-> NoText]
  ELSE [ok |-> TRUE, text |-> f[q].c]

\* fs.writeFileSync(p, text): writes through a link, creates a missing file.
writeFileSync(f, p, text) ==
  LET q == Real(f, p, MaxHops)
      l == Loc(f, p) IN
  IF q # Err
  THEN (IF f[q].k = "file" THEN Ok(Put(f, q, TextNode(text))) ELSE Fail(f))
  ELSE IF l = Err \/ l \in DOMAIN f THEN Fail(f)
  ELSE Ok(Put(f, l, TextNode(text)))

\* createVSCodeSettings(): the file system it leaves and what it returns;
\* ok is FALSE when the mkdirSync outside the try blocks throws.
rootDir == <<>>
vscodeDir == Join(rootDir, <<".vscode">>)
settingsPath == Join(vscodeDir, <<"settings.json">>)

SettingsBody(f) ==
  IF existsSync(f, settingsPath)
  THEN LET rd == readFileSync(f, settingsPath) IN
       IF ~rd.ok THEN [fs |-> f, ret |-> FALSE]
       ELSE LET parsed == IF trimNonEmpty(rd.text) THEN JSONparse(rd.text)
                          ELSE [ok |-> FALSE, top |-> "-", m |-> <<>>]
                existingSettings == IF parsed.ok THEN parsed
                                    ELSE [ok |-> TRUE, top |-> "object", m |-> <<>>]
                cond == KeyCondition(existingSettings)
            IN IF cond = "throw" THEN [fs |-> f, ret |-> FALSE]
               ELSE IF cond = "truthy" THEN [fs |-> f, ret |-> FALSE]
               ELSE LET w == writeFileSync(f, settingsPath,
                                   JSONstringify(Spread(existingSettings)))
                    IN [fs |-> w.fs, ret |-> w.ok]
  ELSE LET w == writeFileSync(f, settingsPath, JSONstringify(eslintConfig))
       IN [fs |-> w.fs, ret |-> w.ok]

createVSCodeSettings(f) ==
  LET made == IF ~existsSync(f, vscodeDir) THEN mkdirSync(f, vscodeDir) ELSE Ok(f)
  IN IF ~made.ok THEN [ok |-> FALSE, fs |-> f, ret |-> FALSE]
     ELSE [ok |-> TRUE, fs |-> SettingsBody(made.fs).fs,
           ret |-> SettingsBody(made.fs).ret]

\* ------------------------------------------------------------- the script
rootCursorRulesDir == Join(rootDir, <<".cursor", "rules">>)
cursorDirOf(projectDir) == Join(rootDir, <<projectDir, ".cursor">>)
rulesDirOf(projectDir) == Join(cursorDirOf(projectDir), <<"rules">>)
targetProjectRulesDirOf(projectDir) ==
  Join(rootDir, <<".cursor", "rules", projectDir>>)

\* lstat of p: the entry itself, or a node of kind "none".
NoneNode == [k |-> "none", t |-> <<>>, c |-> NoText]
Lstat(f, p) == IF LExists(f, p) /\ p # <<>> THEN f[Loc(f, p)] ELSE NoneNode

\* The filter chain that builds projectDirs from readdirSync(rootDir).
ListProjects(f) ==
  {d \in Children(f, rootDir) :
     DirentIsDirectory(f, rootDir, d) /\ ~startsWithDot(d)}

\* What one iteration of ruleFiles.forEach leaves: the file system, what it
\* added to createdSymlinks, skippedSymlinks and errorSymlinks, and whether
\* an exception left the callback.
Step(f, c, s, e, threw) ==
  [fs |-> f, created |-> c, skipped |-> s, failed |-> e, threw |-> threw]

\* LinkOrSkip with the skipped counter left alone.
LinkOrSkip_NoSkipCount(f, ruleFile, targetPath) ==
  IF ~existsSync(f, targetPath)
  THEN LET ln == symlinkSync(f, ruleFile, targetPath)
       IN IF ln.ok THEN Step(ln.fs, 1, 0, 0, FALSE)
          ELSE Step(f, 0, 0, 1, FALSE)
  ELSE Step(f, 0, 0, 0, FALSE)

\* Lines 151-169: create the link unless existsSync sees the target.
LinkOrSkip(f, ruleFile, targetPath) ==
  IF ~existsSync(f, targetPath)
  THEN LET ln == symlinkSync(f, ruleFile, targetPath)
       IN IF ln.ok THEN Step(ln.fs, 1, 0, 0, FALSE)
          ELSE Step(f, 0, 0, 1, FALSE)
  ELSE Step(f, 0, 1, 0, FALSE)

\* Reconcile with the link pointing at the path relative to the project's
\* rule directory instead of the rule file's absolute path.
Reconcile_RelativeTarget(f, opt_force, rulesDir, targetProjectRulesDir, ruleFile) ==
  LET relativePath == Relative(rulesDir, ruleFile)
      targetPath == Join(targetProjectRulesDir, relativePath)
      targetParentDir == Parent(targetPath)
      made == IF ~existsSync(f, targetParentDir)
              THEN mkdirSync(f, targetParentDir) ELSE Ok(f)
  IN IF ~made.ok THEN Step(f, 0, 0, 0, TRUE)
     ELSE LET del == IF opt_force /\ existsSync(made.fs, targetPath)
                     THEN unlinkSync(made.fs, targetPath) ELSE Ok(made.fs)
          IN IF ~del.ok THEN Step(made.fs, 0, 0, 1, FALSE)
             ELSE LinkOrSkip(del.fs, relativePath, targetPath)

\* Lines 125-170: body of ruleFiles.forEach for one rule file.  The
\* mkdirSync of the parent directory is covered by no try block.
Reconcile(f, opt_force, rulesDir, targetProjectRulesDir, ruleFile) ==
  LET relativePath == Relative(rulesDir, ruleFile)
      targetPath == Join(targetProjectRulesDir, relativePath)
      targetParentDir == Parent(targetPath)
      made == IF ~existsSync(f, targetParentDir)
              THEN mkdirSync(f, targetParentDir) ELSE Ok(f)
  IN IF ~made.ok THEN Step(f, 0, 0, 0, TRUE)
     ELSE LET del == IF opt_force /\ existsSync(made.fs, targetPath)
                     THEN unlinkSync(made.fs, targetPath) ELSE Ok(made.fs)
          IN IF ~del.ok THEN Step(made.fs, 0, 0, 1, FALSE)
             ELSE LinkOrSkip(del.fs, ruleFile, targetPath)

VARIABLES
  fs,                     \* the file system
  noread,                 \* directories whose listing is denied
  force,                  \* options.force
  pc,                     \* position of the script
  run,                    \* which invocation this is
  projectDirs,            \* projectDirs
  pending,                \* projects projectDirs.forEach has not visited
  projectDir,             \* project being processed
  ruleFiles,              \* files ruleFiles.forEach has not visited
  totalRuleFiles, createdSymlinks, skippedSymlinks, errorSymlinks,
  processed,              \* iterations of ruleFiles.forEach completed
  vscodeSettingsUpdated,
  fatal,                  \* where an uncaught exception ended the process
  fs0,                    \* file system when this invocation started
  last                    \* the latest ruleFiles.forEach iteration

vars == <<fs, noread, force, pc, run, projectDirs, pending, projectDir,
          ruleFiles, totalRuleFiles, createdSymlinks, skippedSymlinks,
          errorSymlinks, processed, vscodeSettingsUpdated, fatal, fs0, last>>

counters == <<totalRuleFiles, createdSymlinks, skippedSymlinks, errorSymlinks,
              processed>>

NoLast == [ruleFile |-> <<>>, targetPath |-> <<>>, pre |-> NoneNode,
           preExists |-> FALSE, post |-> NoneNode, created |-> 0, skipped |-> 0, failed |-> 0,
           threw |-> FALSE]

Crash(where) ==
  /\ pc' = "crashed"
  /\ fatal' = where

\* Lines 62-91: create <root>/.cursor/rules, list the projects, zero the
\* statistics.
Start ==
  /\ pc = "start"
  /\ LET made == IF ~existsSync(fs, rootCursorRulesDir)
                 THEN mkdirSync(fs, rootCursorRulesDir) ELSE Ok(fs)
     IN IF ~made.ok
        THEN /\ Crash("rootCursorRulesDir")
             /\ UNCHANGED <<fs, projectDirs, pending>>
        ELSE /\ fs' = made.fs
             /\ projectDirs' = ListProjects(made.fs)
             /\ pending' = ListProjects(made.fs)
             /\ pc' = "projects"
             /\ fatal' = fatal
  /\ totalRuleFiles' = 0
  /\ createdSymlinks' = 0
  /\ skippedSymlinks' = 0
  /\ errorSymlinks' = 0
  /\ processed' = 0
  /\ UNCHANGED <<noread, force, run, projectDir, ruleFiles,
                 vscodeSettingsUpdated, fs0, last>>

\* Lines 94-123, 171-175: one iteration of projectDirs.forEach up to the
\* point where its rule files are listed.
ProcessProject ==
  /\ pc = "projects"
  /\ \E d \in pending :
       LET cursorDir == cursorDirOf(d)
           rulesDir == rulesDirOf(d)
           hasRules == /\ existsSync(fs, cursorDir) /\ isDirectory(fs, cursorDir)
                       /\ existsSync(fs, rulesDir) /\ isDirectory(fs, rulesDir)
           made == IF ~existsSync(fs, targetProjectRulesDirOf(d))
                   THEN mkdirSync(fs, targetProjectRulesDirOf(d)) ELSE Ok(fs)
           found == getAllFiles(made.fs, noread, rulesDir)
       IN /\ pending' = pending \ {d}
          /\ projectDir' = d
          /\ IF ~hasRules
             THEN /\ UNCHANGED <<fs, ruleFiles, totalRuleFiles, pc, fatal>>
             ELSE IF ~made.ok
             THEN /\ Crash("targetProjectRulesDir")
                  /\ UNCHANGED <<fs, ruleFiles, totalRuleFiles>>
             ELSE IF ~found.ok
             THEN /\ Crash("getAllFiles")
                  /\ fs' = made.fs
                  /\ UNCHANGED <<ruleFiles, totalRuleFiles>>
             ELSE /\ fs' = made.fs
                  /\ ruleFiles' = found.files
                  /\ totalRuleFiles' = totalRuleFiles + Cardinality(found.files)
                  /\ pc' = IF found.files = {} THEN "projects" ELSE "files"
                  /\ fatal' = fatal
  /\ UNCHANGED <<noread, force, run, projectDirs, createdSymlinks,
                 skippedSymlinks, errorSymlinks, processed,
                 vscodeSettingsUpdated, fs0, last>>

\* Lines 124-170: one iteration of ruleFiles.forEach.
ProcessRuleFile ==
  /\ pc = "files"
  /\ \E ruleFile \in ruleFiles :
       LET rulesDir == rulesDirOf(projectDir)
           tdir == targetProjectRulesDirOf(projectDir)
           targetPath == Join(tdir, Relative(rulesDir, ruleFile))
           r == Reconcile(fs, force, rulesDir, tdir, ruleFile)
       IN /\ fs' = r.fs
          /\ last' = [ruleFile |-> ruleFile, targetPath |-> targetPath,
                      pre |-> Lstat(fs, targetPath),
                      preExists |-> existsSync(fs, targetPath),
                      post |-> Lstat(r.fs, targetPath),
                      created |-> r.created, skipped |-> r.skipped,
                      failed |-> r.failed, threw |-> r.threw]
          /\ createdSymlinks' = createdSymlinks + r.created
          /\ skippedSymlinks' = skippedSymlinks + r.skipped
          /\ errorSymlinks' = errorSymlinks + r.failed
          /\ IF r.threw
             THEN /\ Crash("targetParentDir")
                  /\ UNCHANGED <<ruleFiles, processed>>
             ELSE /\ ruleFiles' = ruleFiles \ {ruleFile}
                  /\ processed' = processed + 1
                  /\ pc' = IF ruleFiles = {ruleFile} THEN "projects" ELSE "files"
                  /\ fatal' = fatal
  /\ UNCHANGED <<noread, force, run, projectDirs, pending, projectDir,
                 totalRuleFiles, vscodeSettingsUpdated, fs0>>

\* Lines 271-273: createVSCodeSettings() once every project is done.
Settings ==
  /\ pc = "projects"
  /\ pending = {}
  /\ LET r == createVSCodeSettings(fs)
     IN IF ~r.ok
        THEN /\ Crash("vscodeDir")
             /\ UNCHANGED <<fs, vscodeSettingsUpdated>>
        ELSE /\ fs' = r.fs
             /\ vscodeSettingsUpdated' = r.ret
             /\ pc' = "summary"
             /\ fatal' = fatal
  /\ UNCHANGED <<noread, force, run, projectDirs, pending, projectDir,
                 ruleFiles, counters, fs0, last>>

\* Lines 275-289: the summary is printed and the process ends.
Summary ==
  /\ pc = "summary"
  /\ pc' = "done"
  /\ UNCHANGED <<fs, noread, force, run, projectDirs, pending, projectDir,
                 ruleFiles, counters, vscodeSettingsUpdated, fatal, fs0, last>>

\* The tool is invoked again on the file system the previous run left, with
\* the same options.
RunAgain ==
  /\ pc = "done"
  /\ run < MaxRuns
  /\ run' = run + 1
  /\ pc' = "start"
  /\ fs0' = fs
  /\ last' = NoLast
  /\ vscodeSettingsUpdated' = FALSE
  /\ UNCHANGED <<fs, noread, force, projectDirs, pending, projectDir,
                 ruleFiles, counters, fatal>>

\* ------------------------------------------------------ initial workspaces
\* A file system from a set of <<path, node>> pairs.
Build(entries) ==
  [p \in {e[1] : e \in entries} |-> (CHOOSE e \in entries : e[1] = p)[2]]

ruleX(d) == Join(rulesDirOf(d), <<"x.mdc">>)
ruleY(d) == Join(rulesDirOf(d), <<"sub", "y.mdc">>)
mirrorDir(d) == targetProjectRulesDirOf(d)
mirrorX(d) == Join(mirrorDir(d), <<"x.mdc">>)
mirrorSub(d) == Join(mirrorDir(d), <<"sub">>)
mirrorY(d) == Join(mirrorDir(d), <<"sub", "y.mdc">>)
Gone == <<"gone">>

\* Always present: the root, a plain file in it, and a hidden directory that
\* has rule files of its own.
BaseEntries ==
  { <<rootDir, DirNode>>, <<(<<"README.md">>), FileNode>>,
    <<(<<".git">>), DirNode>>, <<cursorDirOf(".git"), DirNode>>,
    <<rulesDirOf(".git"), DirNode>>, <<ruleX(".git"), FileNode>> }

ProjectTop(d) == { <<(<<d>>), DirNode>> }
ProjectCursor(d) == ProjectTop(d) \cup { <<cursorDirOf(d), DirNode>> }
ProjectRules(d) == ProjectCursor(d) \cup { <<rulesDirOf(d), DirNode>> }
ProjectSub(d) ==
  { <<Join(rulesDirOf(d), <<"sub">>), DirNode>>, <<ruleY(d), FileNode>> }

PlainA(d) == ProjectRules(d) \cup { <<ruleX(d), FileNode>> }

\* Input trees of project "a": entries and unreadable directories.
AInputs ==
  { [e |-> ProjectTop("a"), u |-> {}],
    [e |-> ProjectCursor("a"), u |-> {}],
    [e |-> ProjectTop("a") \cup { <<cursorDirOf("a"), FileNode>> }, u |-> {}],
    [e |-> ProjectRules("a"), u |-> {}],
    [e |-> PlainA("a"), u |-> {}],
    [e |-> PlainA("a") \cup ProjectSub("a"), u |-> {}],
    [e |-> PlainA("a") \cup ProjectSub("a"),
     u |-> {Join(rulesDirOf("a"), <<"sub">>)}],
    [e |-> ProjectRules("a") \cup { <<ruleX("a"), LinkNode(Gone)>> }, u |-> {}] }

\* Input trees of project "b".
BInputs == { {}, PlainA("b") }

MirrorRoot ==
  { <<(<<".cursor">>), DirNode>>, <<rootCursorRulesDir, DirNode>> }
MirrorA == MirrorRoot \cup { <<mirrorDir("a"), DirNode>> }

\* What <root>/.cursor holds before the run: nothing, a mirror left by an
\* earlier run, or entries of other kinds in the places the run will use.
Mirrors ==
  { {},
    { <<(<<".cursor">>), FileNode>> },
    MirrorRoot,
    MirrorA,
    MirrorRoot \cup { <<mirrorDir("a"), FileNode>> },
    MirrorRoot \cup { <<mirrorDir("a"), LinkNode(Gone)>> },
    MirrorA \cup { <<mirrorX("a"), FileNode>> },
    MirrorA \cup { <<mirrorX("a"), DirNode>> },
    MirrorA \cup { <<mirrorX("a"), LinkNode(ruleX("a"))>> },
    MirrorA \cup { <<mirrorX("a"), LinkNode(<<"README.md">>)>> },
    MirrorA \cup { <<mirrorX("a"), LinkNode(Gone)>> },
    MirrorA \cup { <<mirrorSub("a"), FileNode>> },
    MirrorA \cup { <<mirrorX("a"), LinkNode(ruleX("a"))>>,
                   <<mirrorSub("a"), FileNode>> },
    MirrorA \cup { <<mirrorX("a"), LinkNode(ruleX("a"))>>,
                   <<mirrorSub("a"), DirNode>>,
                   <<mirrorY("a"), LinkNode(ruleY("a"))>>,
                   <<Join(mirrorDir("a"), <<"old.mdc">>), LinkNode(Gone)>> } }

\* Mirrors whose directory for project "a" is a symbolic link to a
\* directory: the project's own rule directory, or the mirror of "b".
LinkedMirrors ==
  { MirrorRoot \cup { <<mirrorDir("a"), LinkNode(rulesDirOf("a"))>> },
    MirrorRoot \cup { <<mirrorDir("a"), LinkNode(mirrorDir("b"))>>,
                      <<mirrorDir("b"), DirNode>> } }

\* Contents of settings.json.
MemberValues == FalsyValues \cup {"\"custom\"", AutoValue}
Foo == [k |-> "foo", v |-> "1"]
Members ==
  { <<>>, <<Foo>> }
    \cup { <<[k |-> ESLintKey, v |-> v]>> : v \in MemberValues }
    \cup { <<Foo, [k |-> ESLintKey, v |-> v]>> : v \in MemberValues }
    \cup { <<[k |-> ESLintKey, v |-> v], Foo>> : v \in MemberValues }
Texts ==
  { BlankText, MalformedText, JsonText("null", <<>>, FALSE),
    JsonText("number", <<>>, FALSE) }
    \cup { JsonText("object", m, pr) : m \in Members, pr \in BOOLEAN }

VSDir == { <<vscodeDir, DirNode>> }
\* What <root>/.vscode holds before the run.
VSCodes ==
  { {}, VSDir, { <<vscodeDir, FileNode>> }, { <<vscodeDir, LinkNode(Gone)>> },
    VSDir \cup { <<settingsPath, DirNode>> } }
    \cup { VSDir \cup { <<settingsPath, TextNode(t)>> } : t \in Texts }

Configured ==
  VSDir \cup { <<settingsPath, TextNode(JSONstringify(eslintConfig))>> }

\* Workspaces that vary the rule trees and the mirror, with .vscode either
\* absent or already configured.
LinkWorkspaces ==
  { [e |-> BaseEntries \cup a.e \cup b \cup m \cup v, u |-> a.u] :
      a \in AInputs, b \in BInputs, m \in Mirrors, v \in { {}, Configured } }

\* Workspaces whose mirror directory for "a" is a symbolic link.
LinkedWorkspaces ==
  { [e |-> BaseEntries \cup PlainA("a") \cup sub \cup b \cup m, u |-> {}] :
      sub \in { {}, ProjectSub("a") }, b \in BInputs, m \in LinkedMirrors }

\* Workspaces that vary .vscode, with one project and no mirror yet.
SettingsWorkspaces ==
  { [e |-> BaseEntries \cup ProjectRules("a") \cup { <<ruleX("a"), FileNode>> }
             \cup v, u |-> {}] : v \in VSCodes }

Init ==
  /\ \E w \in LinkWorkspaces \cup LinkedWorkspaces \cup SettingsWorkspaces :
       /\ fs = Build(w.e)
       /\ noread = w.u
  /\ force \in BOOLEAN
  /\ pc = "start"
  /\ run = 1
  /\ projectDirs = {}
  /\ pending = {}
  /\ projectDir = ""
  /\ ruleFiles = {}
  /\ totalRuleFiles = 0
  /\ createdSymlinks = 0
  /\ skippedSymlinks = 0
  /\ errorSymlinks = 0
  /\ processed = 0
  /\ vscodeSettingsUpdated = FALSE
  /\ fatal = "none"
  /\ fs0 = fs
  /\ last = NoLast

Next ==
  \/ Start
  \/ ProcessProject
  \/ ProcessRuleFile
  \/ Settings
  \/ Summary
  \/ RunAgain

Spec == Init /\ [][Next]_vars

TypeOK ==
  /\ pc \in {"start", "projects", "files", "summary", "done", "crashed"}
  /\ run \in 1..MaxRuns

\* ------------------------------------------------------------ the claims
\* Rule files of the workspace f: every entry that is not a directory below
\* <project>/.cursor/rules of a top-level project that is not hidden.
InInputTree(q) ==
  Len(q) >= 4 /\ q[2] = ".cursor" /\ q[3] = "rules" /\ ~startsWithDot(q[1])
RuleFilesIn(f) == {q \in DOMAIN f : InInputTree(q) /\ f[q].k # "dir"}

\* <root>/.cursor/rules/<project>/<relativePath> of the rule file q
MirrorOf(q) == Join(rootCursorRulesDir, <<q[1]>> \o SubSeq(q, 4, Len(q)))

Finished == pc = "done"

NoEntryAtMirroredPaths ==
  \A q \in RuleFilesIn(fs0) : ~LExists(fs0, MirrorOf(q))

\* Every directory on the way from the root to a mirrored path is absent or
\* a real directory when the run starts.
MirrorAncestorsPlain ==
  \A q \in RuleFilesIn(fs0) : \A i \in 1..(Len(MirrorOf(q)) - 1) :
    Lstat(fs0, SubSeq(MirrorOf(q), 1, i)).k \in {"none", "dir"}

AllMirrored ==
  \A q \in RuleFilesIn(fs0) : Lstat(fs, MirrorOf(q)) = LinkNode(q)

C1_AllCreated ==
  (Finished /\ NoEntryAtMirroredPaths /\ MirrorAncestorsPlain) =>
    /\ errorSymlinks = 0
    /\ createdSymlinks = Cardinality(RuleFilesIn(fs0))

C2_Idempotence ==
  (Finished /\ run >= 2 /\ ~force) =>
    /\ fs = fs0
    /\ createdSymlinks = 0
    /\ errorSymlinks = 0
    /\ skippedSymlinks = totalRuleFiles
    /\ ~vscodeSettingsUpdated

Reconciled == last # NoLast /\ ~last.threw

\* The entry found at the target is not already the link to this rule file.
Unrelated == last.pre # LinkNode(last.ruleFile)

\* C3: with force, a target that held an unrelated regular file or symbolic
\* link (dangling or not) is afterwards the link to the rule file, and the
\* file is counted as created.
C3_Force ==
  (Reconciled /\ force /\ last.pre.k \in {"file", "link"} /\ Unrelated) =>
    /\ last.post = LinkNode(last.ruleFile)
    /\ last.created = 1

\* What does hold with force: an unrelated regular file or link at the target
\* that existsSync can see is replaced by the link to the rule file.
C3_ForceVisibleEntry ==
  (/\ Reconciled /\ force /\ last.pre.k \in {"file", "link"} /\ Unrelated
   /\ last.preExists) =>
    /\ last.post = LinkNode(last.ruleFile)
    /\ last.created = 1

\* C4: without force, a target that holds any entry is left as it is and
\* the file is counted as skipped, not as failed.
C4_SkipIfPresent ==
  (Reconciled /\ ~force /\ last.pre.k # "none") =>
    /\ last.post = last.pre
    /\ last.skipped = 1
    /\ last.failed = 0

\* What does hold without force: a target that existsSync can see is left as
\* it is and counted as skipped.
C4_SkipVisibleEntry ==
  (Reconciled /\ ~force /\ last.preExists) =>
    /\ last.post = last.pre
    /\ last.skipped = 1
    /\ last.failed = 0

SettingsDone == pc \in {"summary", "done"}
Settings0 == Lstat(fs0, settingsPath)
ParsesAsJson == Settings0.k = "file" /\ Settings0.c.shape = "json"
ParsesAsObject == ParsesAsJson /\ Settings0.c.top = "object"

\* C5: a settings object that already has the key, whatever its value, is
\* left byte for byte as it was and the merger returns false.
C5_KeyNotClobbered ==
  (SettingsDone /\ ParsesAsObject /\ HasKey(Settings0.c.m, ESLintKey)) =>
    /\ Lstat(fs, settingsPath) = Settings0
    /\ ~vscodeSettingsUpdated

\* What does hold: a key whose value is truthy is never overwritten.
C5_TruthyKeyKept ==
  (/\ SettingsDone /\ ParsesAsObject /\ HasKey(Settings0.c.m, ESLintKey)
   /\ Lookup(Settings0.c.m, ESLintKey) \notin FalsyValues) =>
    /\ Lstat(fs, settingsPath) = Settings0
    /\ ~vscodeSettingsUpdated

\* C6: settings that parse as JSON and lack the key afterwards hold every
\* previous member with its value plus the key mapped to [{mode: auto}],
\* and the merger returns true.
C6_Merge ==
  (SettingsDone /\ ParsesAsJson /\ ~HasKey(Settings0.c.m, ESLintKey)) =>
    LET now == Lstat(fs, settingsPath) IN
    /\ vscodeSettingsUpdated
    /\ now.k = "file" /\ now.c.shape = "json" /\ now.c.top = "object"
    /\ \A i \in 1..Len(Settings0.c.m) :
         /\ HasKey(now.c.m, Settings0.c.m[i].k)
         /\ Lookup(now.c.m, Settings0.c.m[i].k) = Settings0.c.m[i].v
    /\ HasKey(now.c.m, ESLintKey)
    /\ Lookup(now.c.m, ESLintKey) = AutoValue

\* What does hold: the merge is as stated when the content parses to
\* anything but null.
C6_MergeNonNull ==
  (/\ SettingsDone /\ ParsesAsJson /\ Settings0.c.top # "null"
   /\ ~HasKey(Settings0.c.m, ESLintKey)) =>
    LET now == Lstat(fs, settingsPath) IN
    /\ vscodeSettingsUpdated
    /\ now.c.top = "object"
    /\ now.c.m = Settings0.c.m \o eslintConfig

\* C7: no failure while a project or a rule file is processed leaves the
\* per-file or per-project step as an exception that ends the run.
C7_ErrorIsolation ==
  fatal \notin {"targetProjectRulesDir", "getAllFiles", "targetParentDir"}

\* C8: no failure inside the settings merger ends the run before the
\* summary.
C8_SettingsNeverRaises ==
  fatal # "vscodeDir"

\* C9: whatever of the starting file system a run removes or replaces is at
\* the mirrored path of a rule file (or is settings.json, which the merger
\* rewrites); nothing inside a project's own rule tree is touched.
C9_WriteSet ==
  \A q \in DOMAIN fs0 :
    (q \notin DOMAIN fs \/ fs[q] # fs0[q]) =>
      \/ q \in {MirrorOf(r) : r \in RuleFilesIn(fs0)}
      \/ q = settingsPath

\* C10: every processed rule file adds one to exactly one of the three
\* counters, and at the summary the three add up to the total.
C10_Conservation ==
  /\ createdSymlinks + skippedSymlinks + errorSymlinks = processed
  /\ last.created + last.skipped + last.failed = (IF Reconciled THEN 1 ELSE 0)
  /\ SettingsDone =>
       createdSymlinks + skippedSymlinks + errorSymlinks = totalRuleFiles

C10_Witness ==
  /\ Finished
  /\ createdSymlinks >= 1 /\ skippedSymlinks >= 1 /\ errorSymlinks >= 1
  /\ totalRuleFiles = 3

====
